---- MODULE Spec2Model ----
(***************************************************************************)
(* Model of arca-rs: the virtual Path type (lexical normalization, join,   *)
(* set_ext, dirname, relative_to, iter_path) and the ancestor-aware Trie.  *)
(*                                                                         *)
(* A Rust String is modelled as a sequence of one-character strings, so    *)
(* "/a/" is <<"/", "a", "/">> and "" is <<>>.  An Option<T> is a sequence   *)
(* of at most one element: None is <<>> and Some(x) is <<x>>.              *)
(***************************************************************************)
EXTENDS Integers, Sequences, FiniteSets, TLC

VARIABLES
    input, out1, out2, npc,         \* normalization: raw input, resolve_path once, twice
    cur, arg, pop,                  \* a Path value, a second Path operand, the last Path operation
    ja, jb, jc, jleft, jright, jpc, \* join: operands, a.join(b).join(c), a.join(b.join(c))
    ra, rb, rrel, rjoined, rpc,     \* relative_to: base, subject, b.relative_to(a), a.join(that)
    inner,                          \* Trie.inner: key string -> (Path, T)
    tlast, tres,                    \* the last insert/remove call, the last lookup and its result
    plain, orig,                    \* history: a plain map key -> value, key -> the Path given to insert
    epath, eext, ename, eset, epc,  \* extension: a Path, extname of it, set_ext argument and result
    ipath, iter, ilast, iyield, inone,\* iter_path: a Path, its PathIterator, the last call, history of items
    xraw, xresolved, xfrom, xnormalized, xpc,\* entry points: raw input, resolve_path, Path::from, normalize_path of it
    ca, cb, cin, cpc                \* contains: two Paths, a.contains(b)

normVars == <<input, out1, out2, npc>>
pathVars == <<cur, arg, pop>>
joinVars == <<ja, jb, jc, jleft, jright, jpc>>
relVars == <<ra, rb, rrel, rjoined, rpc>>
trieVars == <<inner, tlast, tres, plain, orig>>
extVars == <<epath, eext, ename, eset, epc>>
iterVars == <<ipath, iter, ilast, iyield, inone>>
entryVars == <<xraw, xresolved, xfrom, xnormalized, xpc>>
contVars == <<ca, cb, cin, cpc>>
vars == <<input, out1, out2, npc, cur, arg, pop,
          ja, jb, jc, jleft, jright, jpc, ra, rb, rrel, rjoined, rpc,
          inner, tlast, tres, plain, orig,
          epath, eext, ename, eset, epc,
          ipath, iter, ilast, iyield, inone,
          xraw, xresolved, xfrom, xnormalized, xpc,
          ca, cb, cin, cpc>>

(***************************************************************************)
(* Bounds                                                                  *)
(***************************************************************************)
MaxRawLen == 5
MaxPathLen == 3
MaxOperandLen == 3
MaxTrieLen == 2
MaxEntries == 2
MaxNameLen == 6
MaxIterLen == 5

(***************************************************************************)
(* Characters and strings the code names                                   *)
(***************************************************************************)
SLASH == "/"
DOT == "."
DOTDOT == <<".", ".">>
EMPTY == <<>>
ROOT == <<"/">>

Alphabet == {"/", ".", "a", "b"}
PathAlphabet == {"/", ".", "a"}
TrieAlphabet == {"/", "a"}

\* every string over the alphabet al of length at most n
Strings(al, n) == UNION {[1..k -> al] : k \in 0..n}

(***************************************************************************)
(* String primitives of std used by the crate                              *)
(***************************************************************************)
starts_with(s, c) == Len(s) > 0 /\ s[1] = c
ends_with(s, c) == Len(s) > 0 /\ s[Len(s)] = c

\* s[from..to) with 0-based byte offsets as in Rust slices
Slice(s, from, to) == [i \in 1..(to - from) |-> s[from + i]]

RECURSIVE SplitAcc(_, _, _, _)
SplitAcc(s, i, piece, acc) ==
    IF i > Len(s) THEN Append(acc, piece)
    ELSE IF s[i] = SLASH THEN SplitAcc(s, i + 1, <<>>, Append(acc, piece))
    ELSE SplitAcc(s, i + 1, Append(piece, s[i]), acc)

\* str::split('/'): always at least one component, "" gives [""]
split(s) == SplitAcc(s, 1, <<>>, <<>>)

RECURSIVE join_slash(_)
\* [&str]::join("/")
join_slash(comps) ==
    IF Len(comps) = 0 THEN <<>>
    ELSE IF Len(comps) = 1 THEN comps[1]
    ELSE comps[1] \o <<SLASH>> \o join_slash(Tail(comps))

Last(seq) == seq[Len(seq)]
Front(seq) == SubSeq(seq, 1, Len(seq) - 1)

(***************************************************************************)
(* resolve_path (lib.rs 689-728)                                           *)
(***************************************************************************)
\* one iteration of the for loop: the match on the component
resolve_step(path, component) ==
    IF component = DOTDOT THEN
        IF Len(path) > 0 /\ Last(path) = EMPTY THEN path
        ELSE IF Len(path) > 0 /\ Last(path) # DOTDOT THEN Front(path)
        ELSE Append(path, DOTDOT)
    ELSE IF component = <<DOT>> THEN path
    ELSE IF component = EMPTY THEN
        IF Len(path) = 0 THEN Append(path, EMPTY) ELSE path
    ELSE Append(path, component)

RECURSIVE resolve_loop(_, _, _)
resolve_loop(comps, i, path) ==
    IF i > Len(comps) THEN path
    ELSE resolve_loop(comps, i + 1, resolve_step(path, comps[i]))

\* the early return for the empty input yields "." (as a path cleaner would)
resolve_path_empty_as_dot(inp) ==
    IF inp = EMPTY THEN <<DOT>>
    ELSE LET looped == resolve_loop(split(inp), 1, <<>>)
             path == IF ends_with(inp, SLASH) THEN Append(looped, EMPTY) ELSE looped
         IN  IF path = <<EMPTY>> THEN ROOT ELSE join_slash(path)

resolve_path(inp) ==
    IF inp = EMPTY THEN EMPTY
    ELSE LET looped == resolve_loop(split(inp), 1, <<>>)
             path == IF ends_with(inp, SLASH) THEN Append(looped, EMPTY) ELSE looped
         IN  IF path = <<EMPTY>> THEN ROOT ELSE join_slash(path)

(***************************************************************************)
(* Path (lib.rs 121-581).  A Path value is its string.                     *)
(***************************************************************************)
\* impl From<T: AsRef<str>> for Path
Path_from(raw) == resolve_path(raw)

Path_empty == EMPTY
Path_root == ROOT

is_absolute(p) == starts_with(p, SLASH)
is_relative(p) == ~is_absolute(p)

RECURSIVE rfind_from(_, _, _)
rfind_from(s, c, i) ==
    IF i = 0 THEN -1
    ELSE IF s[i] = c THEN i - 1
    ELSE rfind_from(s, c, i - 1)

\* str::rfind(char): the 0-based offset of the last occurrence, -1 for None
rfind(s, c) == rfind_from(s, c, Len(s))

RECURSIVE trim_end_matches(_, _)
trim_end_matches(s, c) ==
    IF ends_with(s, c) THEN trim_end_matches(Front(s), c) ELSE s

D_TS == <<".", "d", ".", "t", "s">>

\* Path::basename: None is <<>>, Some(s) is <<s>>
basename(self) ==
    LET has_trailing_slash == ends_with(self, SLASH)
        initial_slice == IF has_trailing_slash THEN Slice(self, 0, Len(self) - 1) ELSE self
        last_slash == rfind(initial_slice, SLASH)
        first_basename_char == IF last_slash >= 0 THEN last_slash + 1 ELSE 0
    IN  IF first_basename_char < Len(initial_slice)
        THEN <<Slice(initial_slice, first_basename_char, Len(initial_slice))>>
        ELSE <<>>

\* the closure of Path::extname applied to a basename
extname_of(name) ==
    LET found == rfind(name, DOT)
        last_dot == IF found > 2 /\ Slice(name, found - 2, Len(name)) = D_TS
                    THEN found - 2 ELSE found
    IN  IF found >= 0 THEN
            IF last_dot # 0 THEN <<Slice(name, last_dot, Len(name))>> ELSE <<>>
        ELSE <<>>

\* Path::extname
extname(self) == IF basename(self) = <<>> THEN <<>> ELSE extname_of(basename(self)[1])

\* str::starts_with for a string pattern
starts_with_str(s, pattern) ==
    Len(pattern) <= Len(s) /\ \A i \in 1..Len(pattern) : s[i] = pattern[i]

\* Path::contains
contains(self, other) == starts_with_str(other, self) \/ other = self

\* Path::join: the new value of self.path
join(self, other) ==
    IF other # EMPTY THEN
        IF self = EMPTY \/ is_absolute(other) THEN other
        ELSE LET pushed == IF ~ends_with(self, SLASH) THEN Append(self, SLASH) ELSE self
             IN  resolve_path(pushed \o other)
    ELSE self

with_join(self, other) == join(self, other)

join_str(self, raw) == join(self, Path_from(raw))

\* Path::set_ext: the new value of self.path
set_ext(self, ext) ==
    LET has_trailing_slash == ends_with(self, SLASH)
        initial_slice == IF has_trailing_slash THEN Slice(self, 0, Len(self) - 1) ELSE self
        last_slash == rfind(initial_slice, SLASH)
        first_basename_char == IF last_slash >= 0 THEN last_slash + 1 ELSE 0
        last_dot == rfind(Slice(self, first_basename_char, Len(self)), DOT)
        ext_char0 == IF last_dot >= 0 THEN last_dot + first_basename_char
                     ELSE Len(initial_slice)
        ext_char1 == IF ext_char0 = first_basename_char THEN Len(self) ELSE ext_char0
        ext_char == IF ext_char1 > 2 /\ Slice(self, ext_char1 - 2, Len(self)) = D_TS
                    THEN ext_char1 - 2 ELSE ext_char1
        copy == Slice(self, 0, ext_char) \o ext
    IN  IF has_trailing_slash THEN Append(copy, SLASH) ELSE copy

with_ext(self, ext) == set_ext(self, ext)
without_ext(self) == with_ext(self, EMPTY)

\* Path::dirname: None is <<>>, Some(p) is <<p>>
dirname(self) ==
    IF ends_with(self, SLASH) /\ Len(self) <= 1 THEN <<>>
    ELSE LET slice_len == IF ends_with(self, SLASH) THEN Len(self) - 1 ELSE Len(self)
             slice == Slice(self, 0, slice_len)
             last_slash == rfind(slice, SLASH)
         IN  IF last_slash >= 0 THEN
                 IF last_slash > 0 THEN <<Path_from(Slice(slice, 0, last_slash))>>
                 ELSE <<Path_from(ROOT)>>
             ELSE <<>>

RECURSIVE common_prefix_count(_, _, _)
\* zip(..).take_while(|(a, b)| a == b).count(), counting from position i
common_prefix_count(xs, ys, i) ==
    IF i <= Len(xs) /\ i <= Len(ys) /\ xs[i] = ys[i]
    THEN 1 + common_prefix_count(xs, ys, i + 1)
    ELSE 0

\* the identical-paths case stores "." without normalizing it
relative_to_body_raw_dot(self, other) ==
    LET ends_with_slash == ends_with(self, SLASH)
        self_components == split(trim_end_matches(self, SLASH))
        other_components == split(trim_end_matches(other, SLASH))
        common_prefix_length == common_prefix_count(self_components, other_components, 1)
        ups == [i \in 1..(Len(other_components) - common_prefix_length) |-> DOTDOT]
        rest == SubSeq(self_components, common_prefix_length + 1, Len(self_components))
        marker == IF ends_with_slash THEN <<EMPTY>> ELSE <<>>
        relative_path == ups \o rest \o marker
    IN  IF relative_path = <<>> THEN <<DOT>>
        ELSE Path_from(join_slash(relative_path))

\* the trailing-separator marker of self is not pushed
relative_to_body_no_marker(self, other) ==
    LET self_components == split(trim_end_matches(self, SLASH))
        other_components == split(trim_end_matches(other, SLASH))
        common_prefix_length == common_prefix_count(self_components, other_components, 1)
        ups == [i \in 1..(Len(other_components) - common_prefix_length) |-> DOTDOT]
        rest == SubSeq(self_components, common_prefix_length + 1, Len(self_components))
        relative_path == ups \o rest
    IN  IF relative_path = <<>> THEN Path_from(<<DOT>>)
        ELSE Path_from(join_slash(relative_path))

\* the body of Path::relative_to after the two assertions
relative_to_body(self, other) ==
    LET ends_with_slash == ends_with(self, SLASH)
        self_components == split(trim_end_matches(self, SLASH))
        other_components == split(trim_end_matches(other, SLASH))
        common_prefix_length == common_prefix_count(self_components, other_components, 1)
        ups == [i \in 1..(Len(other_components) - common_prefix_length) |-> DOTDOT]
        rest == SubSeq(self_components, common_prefix_length + 1, Len(self_components))
        marker == IF ends_with_slash THEN <<EMPTY>> ELSE <<>>
        relative_path == ups \o rest \o marker
    IN  IF relative_path = <<>> THEN Path_from(<<DOT>>)
        ELSE Path_from(join_slash(relative_path))

\* only self is asserted to be absolute
relative_to_unchecked_base(self, other) ==
    IF ~is_absolute(self) THEN [panic |-> TRUE, path |-> EMPTY]
    ELSE [panic |-> FALSE, path |-> relative_to_body(self, other)]

\* Path::relative_to: panic is TRUE when an assertion fails (no Path is returned)
relative_to(self, other) ==
    IF ~is_absolute(self) THEN [panic |-> TRUE, path |-> EMPTY]
    ELSE IF ~is_absolute(other) THEN [panic |-> TRUE, path |-> EMPTY]
    ELSE [panic |-> FALSE, path |-> relative_to_body(self, other)]

(***************************************************************************)
(* PathIterator (lib.rs 31-115)                                            *)
(***************************************************************************)
strip_prefix_or(s, c) == IF starts_with(s, c) THEN Tail(s) ELSE s
strip_suffix_or(s, c) == IF ends_with(s, c) THEN Front(s) ELSE s

PathIterator_new(path) ==
    LET has_leading_slash == starts_with(path, SLASH)
        has_trailing_slash == ends_with(path, SLASH) /\ Len(path) > 1
        components_path == strip_suffix_or(strip_prefix_or(path, SLASH), SLASH)
        lead == IF has_leading_slash THEN <<EMPTY>> ELSE <<>>
        components == IF Len(components_path) > 0 THEN lead \o split(components_path)
                      ELSE lead
    IN  [components |-> components,
         front_idx |-> 1,
         back_idx |-> Len(components),
         has_trailing_slash |-> has_trailing_slash]

\* the item Iterator::next builds when it reads front_idx = idx
next_item(it, idx) ==
    IF idx = 1 THEN Path_root
    ELSE LET joined == join_slash(SubSeq(it.components, 1, idx))
         IN  Path_from(IF it.has_trailing_slash THEN Append(joined, SLASH) ELSE joined)

\* the item DoubleEndedIterator::next_back builds when it reads back_idx = idx
next_back_item(it, idx) ==
    IF idx = 1 THEN Path_from(ROOT)
    ELSE Path_from(join_slash(SubSeq(it.components, 1, idx)))

\* Iterator::next: the iterator after the call and the Option it returns
PathIterator_next(it) ==
    IF it.front_idx > it.back_idx THEN [it |-> it, item |-> <<>>]
    ELSE [it |-> [it EXCEPT !.front_idx = it.front_idx + 1],
          item |-> <<next_item(it, it.front_idx)>>]

\* next_back guarded against underflow of back_idx only, not against crossing front_idx
PathIterator_next_back_uncrossed(it) ==
    IF it.back_idx = 0 THEN [it |-> it, item |-> <<>>]
    ELSE [it |-> [it EXCEPT !.back_idx = it.back_idx - 1],
          item |-> <<next_back_item(it, it.back_idx)>>]

\* DoubleEndedIterator::next_back: the iterator after the call and the Option it returns
PathIterator_next_back(it) ==
    IF it.front_idx > it.back_idx THEN [it |-> it, item |-> <<>>]
    ELSE [it |-> [it EXCEPT !.back_idx = it.back_idx - 1],
          item |-> <<next_back_item(it, it.back_idx)>>]

\* every item iter_path can yield for a path, from either end
iter_items(path) ==
    LET it == PathIterator_new(path)
    IN  {next_item(it, k) : k \in 1..it.back_idx} \cup
        {next_back_item(it, k) : k \in 1..it.back_idx}

(***************************************************************************)
(* Trie (lib.rs 730-785).  inner is the radix_trie map: a function from    *)
(* the stored key strings to the stored (Path, T) pairs.                   *)
(***************************************************************************)
\* the key is the path as it is, without the forced trailing separator
key_verbatim(p) == p

\* Trie::key
key(p) == IF ~ends_with(p, SLASH) THEN Append(p, SLASH) ELSE p

\* radix_trie::Trie::get
inner_get(trie, k) == IF k \in DOMAIN trie THEN <<trie[k]>> ELSE <<>>

RECURSIVE ancestor_walk_first(_, _, _, _)
\* the walk stops at the first node that holds a value
ancestor_walk_first(trie, k, depth, best) ==
    IF depth > Len(k) \/ best # <<>> THEN best
    ELSE LET node == SubSeq(k, 1, depth)
         IN  ancestor_walk_first(trie, k, depth + 1,
                                 IF node \in DOMAIN trie THEN <<node>> ELSE best)

RECURSIVE ancestor_walk(_, _, _, _)
\* radix_trie::Trie::get_ancestor: descend along k and keep the deepest node
\* passed that holds a value; best is None or Some(key of that node)
ancestor_walk(trie, k, depth, best) ==
    IF depth > Len(k) THEN best
    ELSE LET node == SubSeq(k, 1, depth)
         IN  ancestor_walk(trie, k, depth + 1,
                           IF node \in DOMAIN trie THEN <<node>> ELSE best)

inner_get_ancestor(trie, k) == ancestor_walk(trie, k, 1, <<>>)

\* Trie::get
get(trie, p) ==
    LET e == inner_get(trie, key(p))
    IN  IF e = <<>> THEN <<>> ELSE <<e[1].value>>

\* Trie::get_ancestor_record: None or Some((key, path, value))
get_ancestor_record(trie, p) ==
    LET e == inner_get_ancestor(trie, key(p))
    IN  IF e = <<>> THEN <<>>
        ELSE <<[key |-> e[1], path |-> trie[e[1]].path, value |-> trie[e[1]].value]>>

\* Trie::get_ancestor_key
get_ancestor_key(trie, p) == inner_get_ancestor(trie, key(p))

\* Trie::get_ancestor_path
get_ancestor_path(trie, p) ==
    LET e == inner_get_ancestor(trie, key(p))
    IN  IF e = <<>> THEN <<>> ELSE <<trie[e[1]].path>>

\* Trie::get_ancestor_value
get_ancestor_value(trie, p) ==
    LET e == inner_get_ancestor(trie, key(p))
    IN  IF e = <<>> THEN <<>> ELSE <<trie[e[1]].value>>

\* function update that adds k to the domain when it is not there
Put(f, k, v) == [x \in DOMAIN f \cup {k} |-> IF x = k THEN v ELSE f[x]]
Drop(f, k) == [x \in DOMAIN f \ {k} |-> f[x]]

\* the Path given to insert is stored as it is
insert_keeps_path(trie, p, value) ==
    Put(trie, key(p), [path |-> p, value |-> value])

\* Trie::insert: the new value of inner
insert(trie, p, value) ==
    LET k == key(p)
        stored == Path_from(k)
    IN  Put(trie, k, [path |-> stored, value |-> value])

\* Trie::remove: the new value of inner
remove(trie, p) == Drop(trie, key(p))


(***************************************************************************)
(* normalize_path (path.rs 62-75).  clean_path::clean is an external crate *)
(* and is modelled by its contract: the components of the path ('.' and    *)
(* empty ones skipped) are folded on a stack, '..' is dropped at the root, *)
(* kept on an empty or all-'..' relative stack and cancels a real          *)
(* component otherwise, and a path left without components is ".".         *)
(***************************************************************************)
clean_step(stack, c, rooted) ==
    IF c = EMPTY \/ c = <<DOT>> THEN stack
    ELSE IF c = DOTDOT THEN
        IF stack = <<>> /\ rooted THEN stack
        ELSE IF \A i \in 1..Len(stack) : stack[i] = DOTDOT THEN Append(stack, DOTDOT)
        ELSE Front(stack)
    ELSE Append(stack, c)

RECURSIVE clean_loop(_, _, _, _)
clean_loop(comps, i, stack, rooted) ==
    IF i > Len(comps) THEN stack
    ELSE clean_loop(comps, i + 1, clean_step(stack, comps[i], rooted), rooted)

clean(raw) ==
    LET rooted == starts_with(raw, SLASH)
        stack == clean_loop(split(raw), 1, <<>>, rooted)
    IN  IF rooted THEN <<SLASH>> \o join_slash(stack)
        ELSE IF stack = <<>> THEN <<DOT>>
        ELSE join_slash(stack)

\* normalize_path without the cleaning step: the string as it was given
normalize_path_uncleaned(original) == original

\* normalize_path
normalize_path(original) ==
    IF ends_with(original, SLASH) /\ ~ends_with(clean(original), SLASH)
    THEN Append(clean(original), SLASH)
    ELSE clean(original)

(***************************************************************************)
(* Specification SpecNorm: resolve_path applied to a raw input, and then   *)
(* to its own output.                                                      *)
(***************************************************************************)
NormIdle == input = EMPTY /\ out1 = EMPTY /\ out2 = EMPTY /\ npc = "idle"
PathIdle == cur = EMPTY /\ arg = EMPTY /\ pop = "idle"
JoinIdle ==
    /\ ja = EMPTY /\ jb = EMPTY /\ jc = EMPTY
    /\ jleft = EMPTY /\ jright = EMPTY /\ jpc = "idle"
NoResult == [panic |-> FALSE, path |-> EMPTY]
RelIdle ==
    /\ ra = EMPTY /\ rb = EMPTY /\ rrel = NoResult
    /\ rjoined = EMPTY /\ rpc = "idle"
NoCall == [op |-> "none", path |-> EMPTY, value |-> <<>>]
NoLookup == [op |-> "none", probe |-> EMPTY, result |-> <<>>]
TrieIdle ==
    /\ inner = <<>> /\ tlast = NoCall /\ tres = NoLookup
    /\ plain = <<>> /\ orig = <<>>
NoIterator == [components |-> <<>>, front_idx |-> 1, back_idx |-> 0, has_trailing_slash |-> FALSE]
NoItem == [op |-> "none", idx |-> 0, item |-> <<>>, late |-> FALSE]
IterIdle ==
    /\ ipath = EMPTY /\ iter = NoIterator /\ ilast = NoItem
    /\ iyield = <<>> /\ inone = FALSE
EntryIdle ==
    /\ xraw = EMPTY /\ xresolved = EMPTY /\ xfrom = EMPTY
    /\ xnormalized = EMPTY /\ xpc = "idle"
ContIdle == ca = EMPTY /\ cb = EMPTY /\ cin = FALSE /\ cpc = "idle"
ExtIdle ==
    /\ epath = EMPTY /\ eext = EMPTY /\ ename = <<>>
    /\ eset = EMPTY /\ epc = "idle"

NormInit ==
    /\ input \in Strings(Alphabet, MaxRawLen)
    /\ out1 = EMPTY
    /\ out2 = EMPTY
    /\ npc = "raw"
    /\ PathIdle /\ JoinIdle /\ RelIdle /\ TrieIdle /\ ExtIdle /\ IterIdle /\ EntryIdle /\ ContIdle

Normalize ==
    /\ npc = "raw"
    /\ out1' = resolve_path(input)
    /\ npc' = "once"
    /\ UNCHANGED <<input, out2>>
    /\ UNCHANGED <<pathVars, joinVars, relVars, trieVars, extVars, iterVars, entryVars, contVars>>

Renormalize ==
    /\ npc = "once"
    /\ out2' = resolve_path(out1)
    /\ npc' = "twice"
    /\ UNCHANGED <<input, out1>>
    /\ UNCHANGED <<pathVars, joinVars, relVars, trieVars, extVars, iterVars, entryVars, contVars>>

NormNext == Normalize \/ Renormalize

SpecNorm == NormInit /\ [][NormNext]_vars

\* C1: normalization is idempotent: resolve_path(resolve_path(x)) = resolve_path(x)
\* for every raw input x.
C1_Idempotent == npc = "twice" => out2 = out1

\* a raw input with '.', repeated and trailing separators, which normalization
\* really changes, has been normalized twice
C1_Witness ==
    /\ npc = "twice"
    /\ input = <<".", "/", "a", "/", "/">>
    /\ out1 = <<"a", "/">>
    /\ out2 = <<"a", "/">>

(***************************************************************************)
(* Specification SpecPath: any sequence of public Path operations on a     *)
(* Path value cur, with a second Path value arg as the operand of join and *)
(* relative_to.                                                            *)
(***************************************************************************)
PathRaws == Strings(PathAlphabet, MaxPathLen)
Exts == {EMPTY, <<".", "a">>}

PathInit ==
    /\ cur = Path_empty
    /\ arg = Path_empty
    /\ pop = "empty"
    /\ NormIdle /\ JoinIdle /\ RelIdle /\ TrieIdle /\ ExtIdle /\ IterIdle /\ EntryIdle /\ ContIdle

\* the operations leave a Path of at most MaxPathLen characters in cur
PathStep(op, value) ==
    /\ Len(value) <= MaxPathLen
    /\ cur' = value
    /\ pop' = op
    /\ UNCHANGED arg
    /\ UNCHANGED <<normVars, joinVars, relVars, trieVars, extVars, iterVars, entryVars, contVars>>

DoFrom == \E raw \in PathRaws : PathStep("from", Path_from(raw))

DoEmpty == PathStep("empty", Path_empty)

DoRoot == PathStep("root", Path_root)

\* keep the current value as the operand of a later join or relative_to
DoHold ==
    /\ arg' = cur
    /\ pop' = "hold"
    /\ UNCHANGED cur
    /\ UNCHANGED <<normVars, joinVars, relVars, trieVars, extVars, iterVars, entryVars, contVars>>

DoJoin == PathStep("join", join(cur, arg))

DoJoinStr == \E raw \in PathRaws : PathStep("join_str", join_str(cur, raw))

DoSetExt == \E ext \in Exts : PathStep("set_ext", set_ext(cur, ext))

DoDirname ==
    /\ dirname(cur) # <<>>
    /\ PathStep("dirname", dirname(cur)[1])

DoRelativeTo ==
    /\ ~relative_to(cur, arg).panic
    /\ PathStep("relative_to", relative_to(cur, arg).path)

DoIterItem == \E item \in iter_items(cur) : PathStep("iter_path", item)

PathNext ==
    \/ DoFrom
    \/ DoEmpty
    \/ DoRoot
    \/ DoHold
    \/ DoJoin
    \/ DoJoinStr
    \/ DoSetExt
    \/ DoDirname
    \/ DoRelativeTo
    \/ DoIterItem

SpecPath == PathInit /\ [][PathNext]_vars

\* C2: after any sequence of public Path operations every Path value holds a
\* canonical string, one that normalization leaves unchanged.
C2_Canonical == resolve_path(cur) = cur /\ resolve_path(arg) = arg

(***************************************************************************)
(* Specification SpecJoin: both groupings of a three-way join, for every   *)
(* canonical path a and all relative canonical paths b and c.              *)
(***************************************************************************)
\* the Path values Path::from builds from the raw strings within the bound
OperandPaths == {Path_from(raw) : raw \in Strings(PathAlphabet, MaxOperandLen)}
RelativeOperands == {p \in OperandPaths : is_relative(p)}

JoinInit ==
    /\ ja \in OperandPaths
    /\ jb \in RelativeOperands
    /\ jc \in RelativeOperands
    /\ jleft = EMPTY
    /\ jright = EMPTY
    /\ jpc = "start"
    /\ NormIdle /\ PathIdle /\ RelIdle /\ TrieIdle /\ ExtIdle /\ IterIdle /\ EntryIdle /\ ContIdle

JoinLeft ==
    /\ jpc = "start"
    /\ jleft' = with_join(with_join(ja, jb), jc)
    /\ jpc' = "left"
    /\ UNCHANGED <<ja, jb, jc, jright>>
    /\ UNCHANGED <<normVars, pathVars, relVars, trieVars, extVars, iterVars, entryVars, contVars>>

JoinRight ==
    /\ jpc = "left"
    /\ jright' = with_join(ja, with_join(jb, jc))
    /\ jpc' = "both"
    /\ UNCHANGED <<ja, jb, jc, jleft>>
    /\ UNCHANGED <<normVars, pathVars, relVars, trieVars, extVars, iterVars, entryVars, contVars>>

JoinNext == JoinLeft \/ JoinRight

SpecJoin == JoinInit /\ [][JoinNext]_vars

\* C3: join is associative: for every path a and all relative paths b and c,
\* a.with_join(b).with_join(c) equals a.with_join(b.with_join(c)).
C3_Associative == jpc = "both" => jleft = jright

(***************************************************************************)
(* Specification SpecRel: b.relative_to(a) for all canonical a and b, and  *)
(* the join of a with the result when relative_to returns one.             *)
(***************************************************************************)
RelInit ==
    /\ ra \in OperandPaths
    /\ rb \in OperandPaths
    /\ rrel = NoResult
    /\ rjoined = EMPTY
    /\ rpc = "start"
    /\ NormIdle /\ PathIdle /\ JoinIdle /\ TrieIdle /\ ExtIdle /\ IterIdle /\ EntryIdle /\ ContIdle

RelativeTo ==
    /\ rpc = "start"
    /\ rrel' = relative_to(rb, ra)
    /\ rpc' = "rel"
    /\ UNCHANGED <<ra, rb, rjoined>>
    /\ UNCHANGED <<normVars, pathVars, joinVars, trieVars, extVars, iterVars, entryVars, contVars>>

\* a panic in relative_to ends the computation: there is nothing to join
JoinBack ==
    /\ rpc = "rel"
    /\ ~rrel.panic
    /\ rjoined' = with_join(ra, rrel.path)
    /\ rpc' = "joined"
    /\ UNCHANGED <<ra, rb, rrel>>
    /\ UNCHANGED <<normVars, pathVars, joinVars, trieVars, extVars, iterVars, entryVars, contVars>>

RelNext == RelativeTo \/ JoinBack

SpecRel == RelInit /\ [][RelNext]_vars

\* C4: relative_to followed by join is a round trip: for all absolute canonical
\* paths a and b, a.with_join(b.relative_to(a)) equals b.
C4_RoundTrip == rpc = "joined" => rjoined = rb

\* C9 as claimed: for every absolute path p, p.relative_to(p) is the path whose
\* canonical string is ".".
C9_SameIsDot ==
    (rpc = "rel" /\ ra = rb /\ is_absolute(rb)) => (~rrel.panic /\ rrel.path = <<DOT>>)

\* C9 amended: for every absolute path p, p.relative_to(p) is the empty path, which
\* is what Path::from(".") normalizes to.
C9_SameIsEmpty ==
    (rpc = "rel" /\ ra = rb /\ is_absolute(rb)) => (~rrel.panic /\ rrel.path = EMPTY)

\* relative_to has acted on two identical absolute paths below the root
C9_Witness ==
    /\ rpc = "rel"
    /\ ra = <<"/", "a">>
    /\ rb = ra
    /\ rrel = [panic |-> FALSE, path |-> EMPTY]

\* C10: relative_to panics and returns no Path whenever self or base is a relative
\* path (the empty path included), and returns a value only when both are absolute.
C10_RejectsRelative ==
    rpc \in {"rel", "joined"} =>
        /\ rrel.panic <=> (is_relative(rb) \/ is_relative(ra))
        /\ rrel.panic => rrel.path = EMPTY

\* relative_to has panicked on an absolute self and the empty base
C10_Witness ==
    /\ rpc = "rel"
    /\ rb = <<"/", "a">>
    /\ ra = EMPTY
    /\ rrel.panic

(***************************************************************************)
(* Specification SpecTrie: any sequence of insert, remove, get and         *)
(* get_ancestor_* calls on one Trie, with Path arguments built by          *)
(* Path::from.  plain and orig record the history of the calls: plain is a *)
(* plain map from a path's separator-terminated form to the value last     *)
(* inserted and not removed since, orig keeps the Path that insert was     *)
(* given for it.                                                           *)
(***************************************************************************)
TriePaths == {Path_from(raw) : raw \in Strings(TrieAlphabet, MaxTrieLen)}
Values == {"v", "w"}

\* the separator-terminated form of a path, as the specification words it
Terminated(p) == IF p # EMPTY /\ p[Len(p)] = SLASH THEN p ELSE p \o <<SLASH>>

TrieInit ==
    /\ inner = <<>>
    /\ tlast = NoCall
    /\ tres = NoLookup
    /\ plain = <<>>
    /\ orig = <<>>
    /\ NormIdle /\ PathIdle /\ JoinIdle /\ RelIdle /\ ExtIdle /\ IterIdle /\ EntryIdle /\ ContIdle

\* insert and remove take &mut self: no lookup result is borrowed when they run
TrieInsert ==
    \E p \in TriePaths, value \in Values :
        /\ tres = NoLookup
        /\ key(p) \in DOMAIN inner \/ Cardinality(DOMAIN inner) < MaxEntries
        /\ inner' = insert(inner, p, value)
        /\ tlast' = [op |-> "insert", path |-> p, value |-> <<value>>]
        /\ plain' = Put(plain, Terminated(p), value)
        /\ orig' = Put(orig, Terminated(p), p)
        /\ UNCHANGED tres
        /\ UNCHANGED <<normVars, pathVars, joinVars, relVars, extVars, iterVars, entryVars, contVars>>

TrieRemove ==
    \E p \in TriePaths :
        /\ tres = NoLookup
        /\ inner' = remove(inner, p)
        /\ tlast' = [op |-> "remove", path |-> p, value |-> <<>>]
        /\ plain' = Drop(plain, Terminated(p))
        /\ orig' = Drop(orig, Terminated(p))
        /\ UNCHANGED tres
        /\ UNCHANGED <<normVars, pathVars, joinVars, relVars, extVars, iterVars, entryVars, contVars>>

\* a lookup returns references into the trie; tres holds the one result in use
Lookup(op, p, result) ==
    /\ tres = NoLookup
    /\ tres' = [op |-> op, probe |-> p, result |-> result]
    /\ UNCHANGED <<inner, tlast, plain, orig>>
    /\ UNCHANGED <<normVars, pathVars, joinVars, relVars, extVars, iterVars, entryVars, contVars>>

\* the caller drops the references a lookup returned
TrieRelease ==
    /\ tres # NoLookup
    /\ tres' = NoLookup
    /\ UNCHANGED <<inner, tlast, plain, orig>>
    /\ UNCHANGED <<normVars, pathVars, joinVars, relVars, extVars, iterVars, entryVars, contVars>>

TrieGet == \E p \in TriePaths : Lookup("get", p, get(inner, p))

TrieGetAncestorRecord ==
    \E p \in TriePaths : Lookup("get_ancestor_record", p, get_ancestor_record(inner, p))

TrieGetAncestorKey ==
    \E p \in TriePaths : Lookup("get_ancestor_key", p, get_ancestor_key(inner, p))

TrieGetAncestorPath ==
    \E p \in TriePaths : Lookup("get_ancestor_path", p, get_ancestor_path(inner, p))

TrieGetAncestorValue ==
    \E p \in TriePaths : Lookup("get_ancestor_value", p, get_ancestor_value(inner, p))

TrieNext ==
    \/ TrieInsert
    \/ TrieRemove
    \/ TrieGet
    \/ TrieGetAncestorRecord
    \/ TrieGetAncestorKey
    \/ TrieGetAncestorPath
    \/ TrieGetAncestorValue
    \/ TrieRelease

SpecTrie == TrieInit /\ [][TrieNext]_vars

\* xs is a leading part of ys (strings; also component sequences)
IsPrefix(xs, ys) == Len(xs) <= Len(ys) /\ SubSeq(ys, 1, Len(xs)) = xs

\* the keys of ks that are a prefix of target, and the longest of them as an Option
PrefixKeys(ks, target) == {k \in ks : IsPrefix(k, target)}
LongestPrefixKey(ks, target) ==
    IF PrefixKeys(ks, target) = {} THEN <<>>
    ELSE <<CHOOSE k \in PrefixKeys(ks, target) :
               \A k2 \in PrefixKeys(ks, target) : Len(k2) <= Len(k)>>

AncestorOps ==
    {"get_ancestor_record", "get_ancestor_key", "get_ancestor_path", "get_ancestor_value"}

\* what a lookup named op has to return when the entry found is the one under found
\* (an Option of a key), read from the history plain and from the stored pairs
Expected(op, found) ==
    IF found = <<>> THEN <<>>
    ELSE IF op = "get_ancestor_key" THEN found
    ELSE IF op = "get_ancestor_value" THEN <<plain[found[1]]>>
    ELSE IF op = "get_ancestor_path" THEN <<inner[found[1]].path>>
    ELSE <<[key |-> found[1], path |-> inner[found[1]].path, value |-> plain[found[1]]]>>

\* C5: after any sequence of insert and remove calls, every get_ancestor_* lookup
\* returns the entry under the longest currently stored key that is a prefix of the
\* probe's separator-terminated form, and nothing when no stored key is such a prefix.
C5_LongestPrefix ==
    tres.op \in AncestorOps =>
        tres.result = Expected(tres.op, LongestPrefixKey(DOMAIN plain, Terminated(tres.probe)))

\* the nearest ancestor of "/a" (its own entry) has just been removed and the lookup
\* returns the next-longest remaining ancestor, the root
C5_Witness ==
    /\ tlast = [op |-> "remove", path |-> <<"/", "a">>, value |-> <<>>]
    /\ tres = [op |-> "get_ancestor_key", probe |-> <<"/", "a">>, result |-> <<ROOT>>]

\* C6: get behaves as a plain map keyed by the path's separator-terminated form: it
\* returns the value of the most recent insert under that key that no remove of the
\* key has followed, and nothing otherwise.
C6_PlainMap ==
    tres.op = "get" =>
        tres.result = (IF Terminated(tres.probe) \in DOMAIN plain
                       THEN <<plain[Terminated(tres.probe)]>> ELSE <<>>)

\* get("a") returns the value given to insert under the other spelling "a/" of the
\* same key, after a remove of another key
C6_Witness ==
    /\ tlast = [op |-> "remove", path |-> ROOT, value |-> <<>>]
    /\ <<"a", "/">> \in DOMAIN orig
    /\ orig[<<"a", "/">>] = <<"a", "/">>
    /\ tres = [op |-> "get", probe |-> <<"a">>, result |-> <<"w">>]

\* the components of a path, the trailing separator set aside: none for the empty
\* path, the single empty component for the root
Components(p) == IF p = EMPTY THEN <<>> ELSE split(trim_end_matches(p, SLASH))

\* a is q itself or a component-wise ancestor directory of q
DirContains(a, q) ==
    /\ is_absolute(a) <=> is_absolute(q)
    /\ IsPrefix(Components(a), Components(q))

\* the key of the entry a get_ancestor_key or get_ancestor_record lookup returned
FoundKey == IF tres.op = "get_ancestor_key" THEN tres.result[1] ELSE tres.result[1].key

\* C7: ancestor matching is directory containment: an ancestor lookup returns only
\* an entry whose inserted path is the probe itself or a component-wise ancestor
\* directory of the probe; never one inserted at a relative or empty path for an
\* absolute probe.
C7_DirContainment ==
    (tres.op \in {"get_ancestor_key", "get_ancestor_record"} /\ tres.result # <<>>) =>
        DirContains(orig[FoundKey], tres.probe)

\* the Path a get_ancestor_path or get_ancestor_record lookup returned
FoundPath == IF tres.op = "get_ancestor_path" THEN tres.result[1] ELSE tres.result[1].path

\* the key of the probe's nearest stored ancestor, by the history of the calls
NearestKey == LongestPrefixKey(DOMAIN plain, Terminated(tres.probe))

\* C8 as claimed: get_ancestor_path and get_ancestor_record on p, or on a descendant
\* whose nearest stored ancestor is p, return a Path equal to p as it was inserted.
C8_OriginalPath ==
    (tres.op \in {"get_ancestor_path", "get_ancestor_record"} /\ tres.result # <<>>) =>
        FoundPath = orig[NearestKey[1]]

\* C8 amended: they return the Path rebuilt from p's key, which is p with a trailing
\* separator appended when p has none (the root for the empty path).
C8_TerminatedPath ==
    (tres.op \in {"get_ancestor_path", "get_ancestor_record"} /\ tres.result # <<>>) =>
        /\ NearestKey # <<>>
        /\ FoundPath = Terminated(orig[NearestKey[1]])

\* "/a" was inserted without a trailing separator and get_ancestor_path returns "/a/"
C8_Witness ==
    /\ <<"/", "a", "/">> \in DOMAIN orig
    /\ orig[<<"/", "a", "/">>] = <<"/", "a">>
    /\ tres = [op |-> "get_ancestor_path", probe |-> <<"/", "a">>,
               result |-> <<<<"/", "a", "/">>>>]

\* the length of the longest common leading run of two component sequences
CommonRun(xs, ys) ==
    CHOOSE n \in 0..Len(xs) :
        /\ n <= Len(ys)
        /\ \A i \in 1..n : xs[i] = ys[i]
        /\ (n < Len(xs) /\ n < Len(ys)) => xs[n + 1] # ys[n + 1]

\* one ".." per component of base beyond the common run, then the components of
\* self beyond it, joined by the separator
RelativeShape(self, base) ==
    LET sc == Components(self)
        bc == Components(base)
        n == CommonRun(sc, bc)
    IN  join_slash([i \in 1..(Len(bc) - n) |-> DOTDOT] \o SubSeq(sc, n + 1, Len(sc)))

\* C11 as claimed: for absolute canonical self and base, self.relative_to(base) is
\* one ".." per component of base beyond the common leading run followed by the
\* components of self beyond it, it ends with a separator exactly when self does,
\* and it is a relative path.
C11_ShapeAndMarker ==
    (rpc = "rel" /\ ~rrel.panic) =>
        /\ trim_end_matches(rrel.path, SLASH) = RelativeShape(rb, ra)
        /\ ends_with(rrel.path, SLASH) <=> ends_with(rb, SLASH)
        /\ is_relative(rrel.path)

\* C11 amended: the same, but the result ends with a separator exactly when self
\* does and the result has at least one component; when self and base have the same
\* components the result is the empty path.
C11_ShapeAndMarkerUnlessEmpty ==
    (rpc = "rel" /\ ~rrel.panic) =>
        /\ trim_end_matches(rrel.path, SLASH) = RelativeShape(rb, ra)
        /\ ends_with(rrel.path, SLASH) <=>
               (ends_with(rb, SLASH) /\ RelativeShape(rb, ra) # EMPTY)
        /\ is_relative(rrel.path)

\* relative_to has gone one level up from the base and down into a directory
C11_Witness ==
    /\ rpc = "rel"
    /\ rb = <<"/", "a", "/">>
    /\ ra = <<"/", ".", "a">>
    /\ rrel = [panic |-> FALSE, path |-> <<".", ".", "/", "a", "/">>]

(***************************************************************************)
(* Specification SpecExt: extname of a canonical path, and then set_ext of *)
(* the same path with an extension string.                                 *)
(***************************************************************************)
NameAlphabet == {".", "d", "t", "s"}
ExtDirs == {EMPTY, <<"/">>, <<"d", "/">>}
ExtTrails == {EMPTY, <<"/">>}
ExtArgs == {EMPTY, <<".", "s">>}

\* the Path values Path::from builds from a directory, a name and a trailing marker
ExtPaths ==
    {Path_from(dir \o name \o trail) :
        dir \in ExtDirs, name \in Strings(NameAlphabet, MaxNameLen), trail \in ExtTrails}

ExtInit ==
    /\ epath \in ExtPaths
    /\ eext = EMPTY
    /\ ename = <<>>
    /\ eset = EMPTY
    /\ epc = "start"
    /\ NormIdle /\ PathIdle /\ JoinIdle /\ RelIdle /\ TrieIdle /\ IterIdle /\ EntryIdle /\ ContIdle

Extname ==
    /\ epc = "start"
    /\ ename' = extname(epath)
    /\ epc' = "named"
    /\ UNCHANGED <<epath, eext, eset>>
    /\ UNCHANGED <<normVars, pathVars, joinVars, relVars, trieVars, iterVars, entryVars, contVars>>

SetExt ==
    /\ epc = "named"
    /\ \E ext \in ExtArgs :
        /\ eext' = ext
        /\ eset' = set_ext(epath, ext)
    /\ epc' = "set"
    /\ UNCHANGED <<epath, ename>>
    /\ UNCHANGED <<normVars, pathVars, joinVars, relVars, trieVars, iterVars, entryVars, contVars>>

ExtNext == Extname \/ SetExt

SpecExt == ExtInit /\ [][ExtNext]_vars

\* the last component of p as an Option: none for the empty path and the root
LastName(p) ==
    IF Components(p) = <<>> \/ Last(Components(p)) = EMPTY THEN <<>>
    ELSE <<Last(Components(p))>>

HasDot(name) == \E i \in 1..Len(name) : name[i] = DOT
LastDot(name) == CHOOSE i \in 1..Len(name) : name[i] = DOT /\ \A j \in (i + 1)..Len(name) : name[j] # DOT
HasSuffix(name, suffix) ==
    /\ Len(suffix) <= Len(name)
    /\ SubSeq(name, Len(name) - Len(suffix) + 1, Len(name)) = suffix

\* the extension of a name by the stated rule
RuleExt(name) ==
    IF ~HasDot(name) THEN <<>>
    ELSE IF HasSuffix(name, D_TS) THEN <<D_TS>>
    ELSE IF LastDot(name) = 1 THEN <<>>
    ELSE <<SubSeq(name, LastDot(name), Len(name))>>

\* C12: extname returns the suffix of the basename starting at its last '.', nothing
\* for a dotfile whose last dot is at position 0, '.d.ts' as one extension when the
\* basename ends with '.d.ts', and nothing when there is no basename or no dot.
C12_ExtnameRule ==
    epc # "start" =>
        ename = (IF LastName(epath) = <<>> THEN <<>> ELSE RuleExt(LastName(epath)[1]))

\* p without the extension extname reports and with ext in its place, the trailing
\* separator of p set aside and put back
ReplacedExt(p, reported, ext) ==
    LET body == strip_suffix_or(p, SLASH)
        stem == IF reported = <<>> THEN body
                ELSE SubSeq(body, 1, Len(body) - Len(reported[1]))
    IN  stem \o ext \o (IF ends_with(p, SLASH) THEN <<SLASH>> ELSE <<>>)

\* C13: set_ext replaces exactly the extension extname reports: the result is the
\* path with its trailing separator set aside, extname's string removed from the end
\* of the basename, ext appended and the trailing separator put back.
C13_SetExtMatchesExtname ==
    epc = "set" => eset = ReplacedExt(epath, ename, eext)

(***************************************************************************)
(* Specification SpecIter: a PathIterator over a canonical path, driven by *)
(* any interleaving of next and next_back calls.  iyield records the calls *)
(* that returned an item, in call order, and inone whether a call has      *)
(* returned None.                                                          *)
(***************************************************************************)
IterPaths == {Path_from(raw) : raw \in Strings(PathAlphabet, MaxIterLen)}

IterInit ==
    /\ ipath \in IterPaths
    /\ iter = PathIterator_new(ipath)
    /\ ilast = NoItem
    /\ iyield = <<>>
    /\ inone = FALSE
    /\ NormIdle /\ PathIdle /\ JoinIdle /\ RelIdle /\ TrieIdle /\ ExtIdle /\ EntryIdle /\ ContIdle

\* one call: op names it, idx is the cursor it read, res what it returned; late
\* tells that an earlier call had already returned None
IterCall(op, idx, res) ==
    /\ iter' = res.it
    /\ ilast' = [op |-> op, idx |-> idx, item |-> res.item, late |-> inone]
    /\ iyield' = IF res.item = <<>> THEN iyield
                 ELSE Append(iyield, [op |-> op, idx |-> idx, item |-> res.item[1]])
    /\ inone' = (inone \/ res.item = <<>>)
    /\ UNCHANGED ipath
    /\ UNCHANGED <<normVars, pathVars, joinVars, relVars, trieVars, extVars, entryVars, contVars>>

IterNext == IterCall("next", iter.front_idx, PathIterator_next(iter))

IterNextBack == IterCall("next_back", iter.back_idx, PathIterator_next_back(iter))

IterNextStep == IterNext \/ IterNextBack

SpecIter == IterInit /\ [][IterNextStep]_vars

\* the prefix of p made of its first i components; the root for the leading
\* empty component of an absolute path
PrefixAt(p, i) ==
    IF join_slash(SubSeq(Components(p), 1, i)) = EMPTY THEN ROOT
    ELSE join_slash(SubSeq(Components(p), 1, i))

\* an item without its trailing-separator marker
NoMarker(item) == IF item = ROOT THEN item ELSE strip_suffix_or(item, SLASH)

\* only next has yielded items so far
FrontOnly == \A k \in 1..Len(iyield) : iyield[k].op = "next"

\* C14: iterated from the front, iter_path yields the prefixes of the path in
\* increasing length: the k-th item is the prefix of the first k components (the
\* root first for an absolute path, the first component first for a relative one),
\* and when the iteration ends there is one item per prefix and the last item is
\* the path itself.
C14_FrontPrefixes ==
    FrontOnly =>
        /\ \A k \in 1..Len(iyield) : NoMarker(iyield[k].item) = PrefixAt(ipath, k)
        /\ inone =>
            /\ Len(iyield) = Len(Components(ipath))
            /\ Len(iyield) > 0 => iyield[Len(iyield)].item = ipath

\* only next_back has yielded items so far
BackOnly == \A k \in 1..Len(iyield) : iyield[k].op = "next_back"

\* the items a front-to-back iteration of p yields, in order
ForwardItems(p) ==
    [k \in 1..PathIterator_new(p).back_idx |-> next_item(PathIterator_new(p), k)]

Reverse(xs) == [k \in 1..Len(xs) |-> xs[Len(xs) + 1 - k]]

\* C15: every non-root item, yielded by next or by next_back, ends with a separator
\* exactly when the path does, and a complete back-to-front iteration yields the
\* front-to-back sequence in reverse order.
C15_MarkerBothWays ==
    /\ \A k \in 1..Len(iyield) :
           iyield[k].item # ROOT =>
               (ends_with(iyield[k].item, SLASH) <=> ends_with(ipath, SLASH))
    /\ (BackOnly /\ inone) =>
           [k \in 1..Len(iyield) |-> iyield[k].item] = Reverse(ForwardItems(ipath))

\* C19: the two cursors never cross or underflow: in every reachable state
\* front_idx <= back_idx + 1 and back_idx >= 0, no cursor position has been yielded
\* twice, at most one item per prefix has been yielded and exactly that many once a
\* call has returned None, and a call made after a None returns None.
C19_CursorsNeverCross ==
    /\ iter.front_idx <= iter.back_idx + 1
    /\ iter.back_idx >= 0
    /\ \A j, k \in 1..Len(iyield) : j # k => iyield[j].idx # iyield[k].idx
    /\ Len(iyield) <= Len(Components(ipath))
    /\ inone => Len(iyield) = Len(Components(ipath))
    /\ ilast.late => ilast.item = <<>>

\* next, next_back, next on "/a/a" yielded its three prefixes, the next call
\* returned None and so did a next_back after it
C19_Witness ==
    /\ ipath = <<"/", "a", "/", "a">>
    /\ Len(iyield) = 3
    /\ iyield[1] = [op |-> "next", idx |-> 1, item |-> ROOT]
    /\ iyield[2] = [op |-> "next_back", idx |-> 3, item |-> <<"/", "a", "/", "a">>]
    /\ iyield[3] = [op |-> "next", idx |-> 2, item |-> <<"/", "a">>]
    /\ ilast = [op |-> "next_back", idx |-> 2, item |-> <<>>, late |-> TRUE]

(***************************************************************************)
(* Specification SpecEntry: one raw string given to each normalization     *)
(* entry point of the crate: resolve_path and Path::from of lib.rs and     *)
(* normalize_path of path.rs.                                              *)
(***************************************************************************)
EntryInit ==
    /\ xraw \in Strings(Alphabet, MaxRawLen)
    /\ xresolved = EMPTY
    /\ xfrom = EMPTY
    /\ xnormalized = EMPTY
    /\ xpc = "raw"
    /\ NormIdle /\ PathIdle /\ JoinIdle /\ RelIdle /\ TrieIdle /\ ExtIdle /\ IterIdle /\ ContIdle

EntryResolve ==
    /\ xpc = "raw"
    /\ xresolved' = resolve_path(xraw)
    /\ xpc' = "resolved"
    /\ UNCHANGED <<xraw, xfrom, xnormalized>>
    /\ UNCHANGED <<normVars, pathVars, joinVars, relVars, trieVars, extVars, iterVars, contVars>>

EntryFrom ==
    /\ xpc = "resolved"
    /\ xfrom' = Path_from(xraw)
    /\ xpc' = "built"
    /\ UNCHANGED <<xraw, xresolved, xnormalized>>
    /\ UNCHANGED <<normVars, pathVars, joinVars, relVars, trieVars, extVars, iterVars, contVars>>

EntryNormalize ==
    /\ xpc = "built"
    /\ xnormalized' = normalize_path(xraw)
    /\ xpc' = "normalized"
    /\ UNCHANGED <<xraw, xresolved, xfrom>>
    /\ UNCHANGED <<normVars, pathVars, joinVars, relVars, trieVars, extVars, iterVars, contVars>>

EntryNext == EntryResolve \/ EntryFrom \/ EntryNormalize

SpecEntry == EntryInit /\ [][EntryNext]_vars

\* C16: every normalization entry point maps the empty input to the empty path:
\* resolve_path, Path::from and normalize_path all return "" for "".
C16_EmptyEverywhere ==
    (xpc = "normalized" /\ xraw = EMPTY) =>
        /\ xresolved = EMPTY
        /\ xfrom = EMPTY
        /\ xnormalized = EMPTY

\* C16 (amended): resolve_path and Path::from map the empty input to the empty
\* path, and normalize_path of path.rs maps it to ".".
C16_EmptyInLibDotInPathRs ==
    (xpc = "normalized" /\ xraw = EMPTY) =>
        /\ xresolved = EMPTY
        /\ xfrom = EMPTY
        /\ xnormalized = <<DOT>>

\* the empty input has gone through the three entry points
C16_Witness ==
    /\ xpc = "normalized"
    /\ xraw = EMPTY
    /\ xresolved = EMPTY
    /\ xfrom = EMPTY
    /\ xnormalized = <<DOT>>

(***************************************************************************)
(* Claims on resolve_path, checked under SpecNorm                          *)
(***************************************************************************)
\* C17: normalization preserves absoluteness: for every raw input x,
\* resolve_path(x) starts with '/' exactly when x starts with '/'.
C17_AbsolutenessPreserved ==
    npc # "raw" => (starts_with(out1, SLASH) <=> starts_with(input, SLASH))

\* the stated rule for one component on a stack of real and '..' components: '.' and
\* empty components leave it alone, '..' cancels a preceding real component, is
\* dropped at the root of an absolute path and is kept otherwise
RuleStep(stack, c, rooted) ==
    IF c = EMPTY \/ c = <<DOT>> THEN stack
    ELSE IF c # DOTDOT THEN Append(stack, c)
    ELSE IF stack # <<>> /\ Last(stack) # DOTDOT THEN Front(stack)
    ELSE IF rooted THEN stack
    ELSE Append(stack, DOTDOT)

RECURSIVE RuleFold(_, _, _, _)
RuleFold(comps, i, stack, rooted) ==
    IF i > Len(comps) THEN stack
    ELSE RuleFold(comps, i + 1, RuleStep(stack, comps[i], rooted), rooted)

\* the non-empty components of a canonical string
NamedComponents(p) == SelectSeq(split(p), LAMBDA c : c # EMPTY)

LeadingRunOnly(comps) ==
    \A i \in 1..Len(comps) : comps[i] = DOTDOT => \A j \in 1..i : comps[j] = DOTDOT

\* C18: every '..' of a raw input is cancelled against the nearest preceding real
\* component, dropped at the absolute root, or kept; so the canonical form of an
\* absolute input has no '..' component and that of a relative input has '..'
\* components only as a leading run.
C18_DotDotRule ==
    npc # "raw" =>
        /\ NamedComponents(out1) = RuleFold(split(input), 1, <<>>, starts_with(input, SLASH))
        /\ starts_with(input, SLASH) => \A i \in 1..Len(NamedComponents(out1)) : NamedComponents(out1)[i] # DOTDOT
        /\ LeadingRunOnly(NamedComponents(out1))

(***************************************************************************)
(* Specification SpecContains: a.contains(b) for all canonical a and b.    *)
(***************************************************************************)
ContInit ==
    /\ ca \in OperandPaths
    /\ cb \in OperandPaths
    /\ cin = FALSE
    /\ cpc = "start"
    /\ NormIdle /\ PathIdle /\ JoinIdle /\ RelIdle /\ TrieIdle /\ ExtIdle /\ IterIdle /\ EntryIdle

Contains ==
    /\ cpc = "start"
    /\ cin' = contains(ca, cb)
    /\ cpc' = "asked"
    /\ UNCHANGED <<ca, cb>>
    /\ UNCHANGED <<normVars, pathVars, joinVars, relVars, trieVars, extVars, iterVars, entryVars>>

ContNext == Contains

SpecContains == ContInit /\ [][ContNext]_vars

\* C20: contains is hierarchical containment: a.contains(b) is true only if b is
\* a or lies beneath a component-wise, that is only if the components of a are a
\* leading run of the components of b.
C20_Hierarchical ==
    (cpc = "asked" /\ cin) => IsPrefix(Components(ca), Components(cb))

====
